---- MODULE Spec2Model ----
(***************************************************************************)
(* Staking ledger and payout engine of the GroupWeave contest contracts    *)
(* (voting polls / content bounties).  The Rust sources of the contracts   *)
(* are not part of the source tree; the handlers are modelled from the     *)
(* specification, and from the code fragments quoted in                    *)
(* contracts/voting/FINAL_SECURITY_REPORT.md (src/unnamed/part_005),       *)
(* contracts/voting/SECURITY_AUDIT.md and the bounty-market README.        *)
(*                                                                         *)
(* Amounts are unsigned integers in model units; timestamps are in days.   *)
(***************************************************************************)
EXTENDS Integers, Sequences, FiniteSets, TLC

VARIABLES now, paused, platform_fee_bps, next_id, polls, stakes, whitelist,
          transfers, stack, last, calc

vars == <<now, paused, platform_fee_bps, next_id, polls, stakes, whitelist,
          transfers, stack, last, calc>>

(***************************************************************************)
(* Bounds of the model.                                                    *)
(***************************************************************************)
MaxTime == 1
\* stand-ins, in model units, for MIN_REWARD_YOCTO / MAX_REWARD_YOCTO and for
\* the participant cap (MAX_VOTERS_PER_POLL, "max 150 participants")
MinReward == 100
MaxReward == 200
MaxParticipants == 1
MaxDepth == 2
\* the greatest value of the amount type, at the scale of the model
MaxWord == 1000000

(***************************************************************************)
(* Program constants.                                                      *)
(***************************************************************************)
MIN_OPTIONS_PER_POLL == 2
MAX_OPTIONS_PER_POLL == 100
MAX_DURATION_DAYS == 365
MAX_FEE_BPS == 2000
BPS_DENOMINATOR == 10000
PERCENT_DENOMINATOR == 100
DEFAULT_FEE_BPS == 500

Owner == "owner"
Platform == "platform"
Accounts == {"owner", "alice", "bob"}
CreatorInputs == {"alice"}
WhitelistInputs == {"bob"}

ValidationError == "ValidationError"
NotFoundError == "NotFoundError"
StateError == "StateError"
AuthorizationError == "AuthorizationError"
ComputationError == "ComputationError"
Ok == "ok"

NoWinner == -1
\* what a checked operation yields when the result does not fit
Overflow == -1

(***************************************************************************)
(* Inputs of the operations.                                               *)
(***************************************************************************)
\* one contest is followed; every operation names its contest by id, and
\* UnknownId stands for every id that was never assigned
ContestIds == {1}
UnknownId == 2
OptionIndexInputs == 0..2
AmountInputs == {1, 2}
\* the calls on a contest id, and one call of each kind on an id never assigned
\* and the calls that attach no deposit, on one option
ZeroStakeInputs == [caller : Accounts, id : ContestIds, option_index : {1}, amount : {0}]
StakeInputs ==
    [caller : Accounts, id : ContestIds, option_index : OptionIndexInputs, amount : AmountInputs]
        \cup {[caller |-> "bob", id |-> UnknownId, option_index |-> 0, amount |-> 1]}
        \cup ZeroStakeInputs
WhitelistCallInputs ==
    [caller : Accounts, id : ContestIds, account : WhitelistInputs]
        \cup {[caller |-> "alice", id |-> UnknownId, account |-> "bob"]}
CloseInputs ==
    [caller : Accounts, id : ContestIds] \cup {[caller |-> "alice", id |-> UnknownId]}
\* create parameters: the valid ones, and each bound violated in turn
CreateParams(n, prize, shares, is_public, duration, attached) ==
    [ n |-> n, prize |-> prize, shares |-> shares, is_public |-> is_public,
      duration |-> duration, attached |-> attached ]
ValidCreateInputs ==
    { CreateParams(2, MinReward, <<90, 10>>, TRUE, 1, MinReward),
      CreateParams(2, 0, <<90, 10>>, FALSE, 1, 0) }
InvalidCreateInputs ==
    { CreateParams(1, MinReward, <<90, 10>>, TRUE, 1, MinReward),
      CreateParams(MAX_OPTIONS_PER_POLL + 1, MinReward, <<90, 10>>, TRUE, 1, MinReward),
      CreateParams(2, MinReward - 1, <<90, 10>>, TRUE, 1, MinReward),
      CreateParams(2, MaxReward + 1, <<90, 10>>, TRUE, 1, MaxReward + 1),
      CreateParams(2, MinReward, <<90, 20>>, TRUE, 1, MinReward),
      CreateParams(2, MinReward, <<90, 10>>, TRUE, 0, MinReward),
      CreateParams(2, MinReward, <<90, 10>>, TRUE, MAX_DURATION_DAYS + 1, MinReward),
      CreateParams(2, MinReward, <<90, 10>>, TRUE, 1, MinReward - 1) }
CreateInputs == ValidCreateInputs \cup InvalidCreateInputs
FeeInputs == {DEFAULT_FEE_BPS, MAX_FEE_BPS, MAX_FEE_BPS + 1}

(***************************************************************************)
(* Arithmetic helpers.                                                     *)
(***************************************************************************)
saturating_sub(a, b) == IF a >= b THEN a - b ELSE 0

RECURSIVE SumFn(_, _)
SumFn(f, S) ==
    IF S = {} THEN 0
    ELSE LET x == CHOOSE y \in S : TRUE
         IN  f[x] + SumFn(f, S \ {x})

SumTotals(totals) == SumFn(totals, DOMAIN totals)

(***************************************************************************)
(* Stake Registry views.                                                   *)
(***************************************************************************)
StakersOf(id) == {a \in Accounts : <<a, id>> \in DOMAIN stakes}

StakeSum(id) ==
    SumFn([a \in StakersOf(id) |-> stakes[<<a, id>>].amount], StakersOf(id))

(***************************************************************************)
(* Access Control Guard.                                                   *)
(***************************************************************************)
is_owner(caller) == caller = Owner

is_contest_creator(caller, id) == id \in DOMAIN polls /\ polls[id].creator = caller

\* what the last call was and how it ended
Result(op, err) == [op |-> op, err |-> err]

Idle == stack = <<>>

\* no payout computation is being looked at
NoCalc == [stage |-> "none"]

(***************************************************************************)
(* Initial state: a freshly deployed contract.                             *)
(***************************************************************************)
Init ==
    /\ now = 0
    /\ paused = FALSE
    /\ platform_fee_bps = DEFAULT_FEE_BPS
    /\ next_id = 1
    /\ polls = <<>>
    /\ stakes = <<>>
    /\ whitelist = {}
    /\ transfers = <<>>
    /\ stack = <<>>
    /\ last = Result("init", Ok)
    /\ calc = NoCalc

(***************************************************************************)
(* Resource Limiter and create.                                            *)
(***************************************************************************)
CreateError_ZeroBelowMinimum(n, prize, shares, duration, attached) ==
    IF paused THEN StateError
    ELSE IF n < MIN_OPTIONS_PER_POLL \/ n > MAX_OPTIONS_PER_POLL THEN ValidationError
    ELSE IF duration <= 0 \/ duration > MAX_DURATION_DAYS THEN ValidationError
    ELSE IF prize < MinReward \/ prize > MaxReward THEN ValidationError
    ELSE IF shares[1] + shares[2] # PERCENT_DENOMINATOR THEN ValidationError
    ELSE IF attached < prize THEN ValidationError
    ELSE Ok

CreateError_NoDurationCap(n, prize, shares, duration, attached) ==
    IF paused THEN StateError
    ELSE IF n < MIN_OPTIONS_PER_POLL \/ n > MAX_OPTIONS_PER_POLL THEN ValidationError
    ELSE IF duration <= 0 THEN ValidationError
    ELSE IF prize > 0 /\ (prize < MinReward \/ prize > MaxReward) THEN ValidationError
    ELSE IF shares[1] + shares[2] # PERCENT_DENOMINATOR THEN ValidationError
    ELSE IF attached < prize THEN ValidationError
    ELSE Ok

CreateError_IgnoresPause(n, prize, shares, duration, attached) ==
    IF n < MIN_OPTIONS_PER_POLL \/ n > MAX_OPTIONS_PER_POLL THEN ValidationError
    ELSE IF duration <= 0 \/ duration > MAX_DURATION_DAYS THEN ValidationError
    ELSE IF prize > 0 /\ (prize < MinReward \/ prize > MaxReward) THEN ValidationError
    ELSE IF shares[1] + shares[2] # PERCENT_DENOMINATOR THEN ValidationError
    ELSE IF attached < prize THEN ValidationError
    ELSE Ok

CreateError(n, prize, shares, duration, attached) ==
    IF paused THEN StateError
    ELSE IF n < MIN_OPTIONS_PER_POLL \/ n > MAX_OPTIONS_PER_POLL THEN ValidationError
    ELSE IF duration <= 0 \/ duration > MAX_DURATION_DAYS THEN ValidationError
    ELSE IF prize > 0 /\ (prize < MinReward \/ prize > MaxReward) THEN ValidationError
    ELSE IF shares[1] + shares[2] # PERCENT_DENOMINATOR THEN ValidationError
    ELSE IF attached < prize THEN ValidationError
    ELSE Ok

NewContest(id, caller, n, prize, shares, is_public, duration) ==
    [ id |-> id,
      creator |-> caller,
      option_totals |-> [i \in 0..(n - 1) |-> 0],
      base_prize |-> prize,
      balance |-> prize,
      creator_share_pct |-> shares[1],
      backer_share_pct |-> shares[2],
      is_public |-> is_public,
      created_at |-> now,
      ends_at |-> now + duration,
      is_closed |-> FALSE,
      payout_done |-> FALSE,
      winner_index |-> NoWinner,
      total_participants |-> 0 ]

create(caller, n, prize, shares, is_public, duration, attached) ==
    /\ Idle
    /\ next_id \in ContestIds \/ CreateError(n, prize, shares, duration, attached) # Ok
    /\ LET err == CreateError(n, prize, shares, duration, attached)
       IN  IF err # Ok
           THEN /\ last' = Result("create", err)
                /\ UNCHANGED <<next_id, polls>>
           ELSE /\ polls' = polls @@ (next_id :> NewContest(next_id, caller, n, prize,
                                                           shares, is_public, duration))
                /\ next_id' = next_id + 1
                /\ last' = Result("create", Ok)
    /\ UNCHANGED <<now, paused, platform_fee_bps, stakes, whitelist, transfers, stack, calc>>

(***************************************************************************)
(* Stake Registry: stake and stake switch.                                 *)
(***************************************************************************)
is_new_voter(caller, id) == <<caller, id>> \notin DOMAIN stakes

whitelisted(caller, id) == <<id, caller>> \in whitelist

voter_limit_reached_OffByOne(poll) == poll.total_participants > MaxParticipants

\* require!(poll.total_voters < MAX_VOTERS_PER_POLL) fails
voter_limit_reached(poll) == ~(poll.total_participants < MaxParticipants)

voting_ended_Never(poll) == FALSE

\* the contest is closed or its expiry has been reached
voting_ended(poll) == poll.is_closed \/ now >= poll.ends_at

whitelist_refuses_Nobody(caller, id) == FALSE

\* if !poll.is_open { require!(whitelist.get(&(poll_id, voter)) ...) } fails
whitelist_refuses(caller, id) == ~polls[id].is_public /\ ~whitelisted(caller, id)

deposit_missing_Never(amount) == FALSE

\* a stake is the deposit attached to the call
deposit_missing(amount) == amount = 0

StakeError_IgnoresPause(caller, id, option_index, amount) ==
    IF id \notin DOMAIN polls THEN NotFoundError
    ELSE IF option_index \notin DOMAIN polls[id].option_totals THEN NotFoundError
    ELSE IF whitelist_refuses(caller, id) THEN AuthorizationError
    ELSE IF voting_ended(polls[id]) THEN StateError
    ELSE IF deposit_missing(amount) THEN ValidationError
    ELSE IF is_new_voter(caller, id) /\ voter_limit_reached(polls[id]) THEN ValidationError
    ELSE Ok

\* while paused, staking is rejected; the checks of the quoted vote() come in
\* the order of their line numbers: whitelist, expiry, voter limit; a call
\* without a deposit stakes nothing and is a bad input
StakeError(caller, id, option_index, amount) ==
    IF paused THEN StateError
    ELSE IF id \notin DOMAIN polls THEN NotFoundError
    ELSE IF option_index \notin DOMAIN polls[id].option_totals THEN NotFoundError
    ELSE IF whitelist_refuses(caller, id) THEN AuthorizationError
    ELSE IF voting_ended(polls[id]) THEN StateError
    ELSE IF deposit_missing(amount) THEN ValidationError
    ELSE IF is_new_voter(caller, id) /\ voter_limit_reached(polls[id]) THEN ValidationError
    ELSE Ok

RemovePreviousStake_Kept(totals, prev) == totals

\* the previous stake's effect on its option's total is reversed
RemovePreviousStake(totals, prev) ==
    [totals EXCEPT ![prev.option_index] = saturating_sub(@, prev.amount)]

AddStake(totals, option_index, amount) ==
    [totals EXCEPT ![option_index] = @ + amount]

CountVoter_Always(poll, is_new) == [poll EXCEPT !.total_participants = @ + 1]

CountVoter_Never(poll, is_new) == poll

CountVoter(poll, is_new) ==
    IF is_new
    THEN [poll EXCEPT !.total_participants = @ + 1]
    ELSE poll

StakeEntry(option_index, amount) ==
    [option_index |-> option_index, amount |-> amount, staked_at |-> now]

stake(caller, id, option_index, amount) ==
    /\ Idle
    /\ LET err == StakeError(caller, id, option_index, amount)
       IN  IF err # Ok
           THEN /\ last' = Result("stake", err)
                /\ UNCHANGED <<polls, stakes>>
           ELSE LET key == <<caller, id>>
                    is_new == is_new_voter(caller, id)
                    prior == IF is_new THEN 0 ELSE stakes[key].amount
                    reversed == IF is_new THEN polls[id].option_totals
                                ELSE RemovePreviousStake(polls[id].option_totals, stakes[key])
                    counted == CountVoter(polls[id], is_new)
                IN  /\ polls' = [polls EXCEPT ![id] =
                                    [counted EXCEPT
                                        !.option_totals = AddStake(reversed, option_index, amount),
                                        !.balance = saturating_sub(@, prior) + amount]]
                    /\ stakes' = [k \in DOMAIN stakes \cup {key} |->
                                    IF k = key THEN StakeEntry(option_index, amount)
                                    ELSE stakes[k]]
                    /\ last' = Result(IF is_new THEN "stake" ELSE "switch", Ok)
    /\ UNCHANGED <<now, paused, platform_fee_bps, next_id, whitelist, transfers, stack, calc>>

(***************************************************************************)
(* Whitelist management (creator only).                                    *)
(***************************************************************************)
WhitelistError(caller, id) ==
    IF id \notin DOMAIN polls THEN NotFoundError
    ELSE IF ~is_contest_creator(caller, id) THEN AuthorizationError
    ELSE Ok

whitelist_add(caller, id, account) ==
    /\ Idle
    /\ LET err == WhitelistError(caller, id)
       IN  /\ whitelist' = IF err = Ok THEN whitelist \cup {<<id, account>>} ELSE whitelist
           /\ last' = Result("whitelist_add", err)
    /\ UNCHANGED <<now, paused, platform_fee_bps, next_id, polls, stakes, transfers, stack, calc>>

whitelist_remove(caller, id, account) ==
    /\ Idle
    /\ LET err == WhitelistError(caller, id)
       IN  /\ whitelist' = IF err = Ok THEN whitelist \ {<<id, account>>} ELSE whitelist
           /\ last' = Result("whitelist_remove", err)
    /\ UNCHANGED <<now, paused, platform_fee_bps, next_id, polls, stakes, transfers, stack, calc>>

(***************************************************************************)
(* Administrative surface (owner only).                                    *)
(***************************************************************************)
SetFeeError_NoCeiling(caller, bps) ==
    IF ~is_owner(caller) THEN AuthorizationError ELSE Ok

SetFeeError(caller, bps) ==
    IF ~is_owner(caller) THEN AuthorizationError
    ELSE IF ~(bps <= MAX_FEE_BPS) THEN ValidationError
    ELSE Ok

set_fee_rate_StoredFirst(caller, bps) ==
    /\ Idle
    /\ LET err == SetFeeError(caller, bps)
       IN  /\ platform_fee_bps' = IF is_owner(caller) THEN bps ELSE platform_fee_bps
           /\ last' = Result("set_fee_rate", err)
    /\ UNCHANGED <<now, paused, next_id, polls, stakes, whitelist, transfers, stack, calc>>

set_fee_rate(caller, bps) ==
    /\ Idle
    /\ LET err == SetFeeError(caller, bps)
       IN  /\ platform_fee_bps' = IF err = Ok THEN bps ELSE platform_fee_bps
           /\ last' = Result("set_fee_rate", err)
    /\ UNCHANGED <<now, paused, next_id, polls, stakes, whitelist, transfers, stack, calc>>

OwnerOnlyError(caller) == IF ~is_owner(caller) THEN AuthorizationError ELSE Ok

pause(caller) ==
    /\ Idle
    /\ LET err == OwnerOnlyError(caller)
       IN  /\ paused' = IF err = Ok THEN TRUE ELSE paused
           /\ last' = Result("pause", err)
    /\ UNCHANGED <<now, platform_fee_bps, next_id, polls, stakes, whitelist, transfers, stack, calc>>

resume(caller) ==
    /\ Idle
    /\ LET err == OwnerOnlyError(caller)
       IN  /\ paused' = IF err = Ok THEN FALSE ELSE paused
           /\ last' = Result("resume", err)
    /\ UNCHANGED <<now, platform_fee_bps, next_id, polls, stakes, whitelist, transfers, stack, calc>>

(***************************************************************************)
(* Payout Engine.                                                          *)
(***************************************************************************)
winning_option_LastOnTie(totals) ==
    CHOOSE w \in DOMAIN totals :
        /\ \A i \in DOMAIN totals : totals[i] <= totals[w]
        /\ \A i \in DOMAIN totals : totals[i] = totals[w] => w >= i

\* the option with the greatest aggregate stake; the lowest index among equals
winning_option(totals) ==
    CHOOSE w \in DOMAIN totals :
        /\ \A i \in DOMAIN totals : totals[i] <= totals[w]
        /\ \A i \in DOMAIN totals : totals[i] = totals[w] => w <= i

fee_of_Waived(total_pool, fee_bps) == 0

fee_of(total_pool, fee_bps) == (total_pool * fee_bps) \div BPS_DENOMINATOR

creator_amount_of(net, creator_share_pct) == (net * creator_share_pct) \div PERCENT_DENOMINATOR

backer_amount_of_EqualSplit(backer_pool, their_stake, winning_total) ==
    backer_pool \div winning_total

backer_amount_of(backer_pool, their_stake, winning_total) ==
    (backer_pool * their_stake) \div winning_total

remainder_of_Dropped(backer_pool, paid_to_backers) == 0

\* what the rounding of the backers' shares leaves over
remainder_of(backer_pool, paid_to_backers) == saturating_sub(backer_pool, paid_to_backers)

\* staker_list: account -> StakeEntry.  The result: the fee and one aggregated
\* amount per recipient; the rounding remainder goes to the creator.
compute_payout(option_totals, winner_index, base_prize, creator_share_pct, backer_share_pct, fee_bps, staker_list, creator) ==
    LET total_pool == base_prize + SumTotals(option_totals)
        fee_amount == fee_of(total_pool, fee_bps)
        net == saturating_sub(total_pool, fee_amount)
        winning_total == option_totals[winner_index]
        backers == {a \in DOMAIN staker_list : staker_list[a].option_index = winner_index}
        creator_amount == creator_amount_of(net, creator_share_pct)
        backer_pool == net - creator_amount
        share == [a \in backers |->
                    backer_amount_of(backer_pool, staker_list[a].amount, winning_total)]
        remainder == remainder_of(backer_pool, SumFn(share, backers))
        recipients == backers \cup {creator}
    IN  IF winning_total = 0
        THEN [fee_amount |-> fee_amount, recipient_amounts |-> (creator :> net)]
        ELSE [fee_amount |-> fee_amount,
              recipient_amounts |->
                [a \in recipients |->
                    (IF a \in backers THEN share[a] ELSE 0)
                    + (IF a = creator THEN creator_amount + remainder ELSE 0)]]

\* the multiplications are overflow-checked: a product beyond the integer
\* width is reported, not wrapped
checked_mul_Wrapping(a, b) == (a * b) % (MaxWord + 1)

checked_mul(a, b) == IF a * b > MaxWord THEN Overflow ELSE a * b

checked_add(a, b) == IF a + b > MaxWord THEN Overflow ELSE a + b

\* the arithmetic steps of compute_payout, in its order; ComputationError as
\* soon as one of them leaves the integer width
payout_error(option_totals, winner_index, base_prize, creator_share_pct, fee_bps, staker_list) ==
    LET total_pool == checked_add(base_prize, SumTotals(option_totals))
        fee_product == checked_mul(total_pool, fee_bps)
        net == saturating_sub(total_pool, fee_product \div BPS_DENOMINATOR)
        creator_product == checked_mul(net, creator_share_pct)
        backer_pool == net - (creator_product \div PERCENT_DENOMINATOR)
        backers == {a \in DOMAIN staker_list : staker_list[a].option_index = winner_index}
    IN  IF total_pool = Overflow THEN ComputationError
        ELSE IF fee_product = Overflow THEN ComputationError
        ELSE IF option_totals[winner_index] = 0 THEN Ok
        ELSE IF creator_product = Overflow THEN ComputationError
        ELSE IF \E a \in backers : checked_mul(backer_pool, staker_list[a].amount) = Overflow
             THEN ComputationError
        ELSE Ok

\* the transfers of one payout, in a fixed order; zero amounts are not sent
AccountOrder == <<"owner", "alice", "bob">>

RECURSIVE PaymentsFrom(_, _, _)
PaymentsFrom(id, amounts, k) ==
    IF k > Len(AccountOrder) THEN <<>>
    ELSE LET a == AccountOrder[k]
         IN  (IF a \in DOMAIN amounts /\ amounts[a] > 0
              THEN <<[id |-> id, to |-> a, amount |-> amounts[a]]>>
              ELSE <<>>) \o PaymentsFrom(id, amounts, k + 1)

PayoutTransfers(id, payout) ==
    (IF payout.fee_amount > 0
     THEN <<[id |-> id, to |-> Platform, amount |-> payout.fee_amount]>>
     ELSE <<>>) \o PaymentsFrom(id, payout.recipient_amounts, 1)

(***************************************************************************)
(* close: validation, payout, transfers, and the write of the contest.     *)
(***************************************************************************)
close_authorized_Anyone(caller, id) == TRUE

\* who may close: the contest's creator or the contract owner
close_authorized(caller, id) == is_contest_creator(caller, id) \/ is_owner(caller)

already_paid_Never(poll) == FALSE

\* payout_done = true prevents a second payout
already_paid(poll) == poll.is_closed \/ poll.payout_done

not_yet_expired_Never(poll) == FALSE

not_yet_expired_Inverted(poll) == now >= poll.ends_at

\* close is for after the contest's expiry
not_yet_expired(poll) == now < poll.ends_at

PayoutErrorOf(id) ==
    LET poll == polls[id]
        staker_list == [a \in StakersOf(id) |-> stakes[<<a, id>>]]
    IN  payout_error(poll.option_totals, winning_option(poll.option_totals),
                     poll.base_prize, poll.creator_share_pct, platform_fee_bps, staker_list)

CloseError(caller, id) ==
    IF id \notin DOMAIN polls THEN NotFoundError
    ELSE IF ~close_authorized(caller, id) THEN AuthorizationError
    ELSE IF already_paid(polls[id]) THEN StateError
    ELSE IF not_yet_expired(polls[id]) THEN StateError
    ELSE PayoutErrorOf(id)

PayoutOf(id) ==
    LET poll == polls[id]
        staker_list == [a \in StakersOf(id) |-> stakes[<<a, id>>]]
    IN  compute_payout(poll.option_totals, winning_option(poll.option_totals),
                       poll.base_prize, poll.creator_share_pct, poll.backer_share_pct,
                       platform_fee_bps, staker_list, poll.creator)

MarkPaid_BalanceKept(poll) ==
    [poll EXCEPT !.payout_done = TRUE,
                 !.winner_index = winning_option(poll.option_totals)]

MarkPaid_WinnerUnset(poll) ==
    [poll EXCEPT !.balance = 0, !.payout_done = TRUE]

\* the state updates made on the contest record before the transfers
MarkPaid(poll) ==
    [poll EXCEPT !.balance = 0,
                 !.payout_done = TRUE,
                 !.winner_index = winning_option(poll.option_totals)]

\* the record is stored back once the transfers have been issued
SavedPoll(poll) == [poll EXCEPT !.is_closed = TRUE]

Frame(id, poll) == [id |-> id, poll |-> poll]

close(caller, id) ==
    /\ LET err == CloseError(caller, id)
       IN  IF err # Ok
           THEN /\ last' = Result("close", err)
                /\ UNCHANGED <<transfers, stack>>
           ELSE /\ transfers' = transfers \o PayoutTransfers(id, PayoutOf(id))
                /\ stack' = <<Frame(id, MarkPaid(polls[id]))>> \o stack
                /\ UNCHANGED last
    /\ UNCHANGED <<now, paused, platform_fee_bps, next_id, polls, stakes, whitelist, calc>>

close_save ==
    /\ stack # <<>>
    /\ polls' = [polls EXCEPT ![Head(stack).id] = SavedPoll(Head(stack).poll)]
    /\ stack' = Tail(stack)
    /\ last' = Result("close", Ok)
    /\ UNCHANGED <<now, paused, platform_fee_bps, next_id, stakes, whitelist, transfers, calc>>

Tick ==
    /\ Idle
    /\ now < MaxTime
    /\ now' = now + 1
    /\ UNCHANGED <<paused, platform_fee_bps, next_id, polls, stakes, whitelist,
                   transfers, stack, last, calc>>

Next ==
    \/ \E caller \in CreatorInputs, p \in CreateInputs :
            create(caller, p.n, p.prize, p.shares, p.is_public, p.duration, p.attached)
    \/ \E c \in StakeInputs : stake(c.caller, c.id, c.option_index, c.amount)
    \/ \E c \in WhitelistCallInputs : whitelist_add(c.caller, c.id, c.account)
    \/ \E c \in WhitelistCallInputs : whitelist_remove(c.caller, c.id, c.account)
    \/ \E caller \in Accounts, bps \in FeeInputs : set_fee_rate(caller, bps)
    \/ \E caller \in Accounts : pause(caller)
    \/ \E caller \in Accounts : resume(caller)
    \/ \E c \in CloseInputs : Idle /\ close(c.caller, c.id)
    \/ close_save
    \/ Tick

Spec == Init /\ [][Next]_vars

\* a close call by the creator or the owner that passes the checks of close
close_call ==
    \E c \in CloseInputs :
        /\ Idle
        /\ CloseError(c.caller, c.id) = Ok
        /\ close(c.caller, c.id)

\* the calls of one creator, one backer and the owner: every kind of call
\* that can precede a close, with an accepted and a rejected input of each
LiveCreateInputs == ValidCreateInputs
LiveStakeInputs ==
    {c \in StakeInputs : /\ c.caller = "bob"
                         /\ c.id \in ContestIds
                         /\ c.option_index \in 0..1
                         /\ c.amount <= 1}
LiveWhitelistInputs == {c \in WhitelistCallInputs : c.caller = "alice" /\ c.id \in ContestIds}
LiveFeeInputs == {MAX_FEE_BPS, MAX_FEE_BPS + 1}

NextLive ==
    \/ \E caller \in CreatorInputs, p \in LiveCreateInputs :
            create(caller, p.n, p.prize, p.shares, p.is_public, p.duration, p.attached)
    \/ \E c \in LiveStakeInputs : stake(c.caller, c.id, c.option_index, c.amount)
    \/ \E c \in LiveWhitelistInputs : whitelist_add(c.caller, c.id, c.account)
    \/ \E c \in LiveWhitelistInputs : whitelist_remove(c.caller, c.id, c.account)
    \/ \E bps \in LiveFeeInputs : set_fee_rate(Owner, bps)
    \/ pause(Owner)
    \/ resume(Owner)
    \/ \E c \in CloseInputs : Idle /\ close(c.caller, c.id)
    \/ close_save
    \/ Tick

\* close calls keep being made and each runs to its end: a close that stays
\* possible is eventually made, and its record is eventually stored
SpecLive == Init /\ [][NextLive]_vars /\ WF_vars(close_call) /\ WF_vars(close_save)

\* the transfer boundary of close treated as untrusted: while a close has
\* issued its transfers and not yet stored the contest, close may be entered again
reenter_close(caller, id) ==
    /\ ~Idle
    /\ Len(stack) < MaxDepth
    /\ close(caller, id)

NextReentrant ==
    \/ Next
    \/ \E c \in CloseInputs : reenter_close(c.caller, c.id)

SpecReentrant == Init /\ [][NextReentrant]_vars

(***************************************************************************)
(* The Payout Engine on its own: compute_payout and the transfers made     *)
(* from its result, applied to the arguments close passes for a contest.   *)
(***************************************************************************)
PayoutAmountInputs == {1, 2, 5, 10, 15}
PayoutOptions == 0..1
PayoutShareInputs == {<<90, 10>>, <<50, 50>>}
\* prizes beyond the reward limits: OverPrize overflows the fee product at the
\* fee ceiling only, HugePrize the creator's product even without a fee
OverPrize == MaxWord \div MAX_FEE_BPS + 100
HugePrize == MaxWord \div 50
PayoutPrizeInputs == {0, MinReward, OverPrize, HugePrize}
PayoutFeeInputs == {0} \cup {bps \in FeeInputs : SetFeeError(Owner, bps) = Ok}

\* the stake entries a contest can have: one per account that staked
PayoutStakerLists ==
    UNION { [S -> [option_index : PayoutOptions, amount : PayoutAmountInputs, staked_at : {0}]] :
            S \in SUBSET Accounts }

\* the option totals that go with a list of stake entries
TotalsOf(staker_list) ==
    [i \in PayoutOptions |->
        LET on_i == {a \in DOMAIN staker_list : staker_list[a].option_index = i}
        IN  SumFn([a \in on_i |-> staker_list[a].amount], on_i)]

PayoutInputs ==
    { [ option_totals |-> TotalsOf(sl), base_prize |-> prize,
        creator_share_pct |-> sh[1], backer_share_pct |-> sh[2],
        fee_bps |-> bps, staker_list |-> sl, creator |-> c ] :
      sl \in PayoutStakerLists, prize \in PayoutPrizeInputs,
      sh \in PayoutShareInputs, bps \in PayoutFeeInputs, c \in CreatorInputs }

InitPayout ==
    /\ now = 0
    /\ paused = FALSE
    /\ platform_fee_bps = DEFAULT_FEE_BPS
    /\ next_id = 1
    /\ polls = <<>>
    /\ stakes = <<>>
    /\ whitelist = {}
    /\ transfers = <<>>
    /\ stack = <<>>
    /\ last = Result("init", Ok)
    /\ calc \in {[stage |-> "input", input |-> in] : in \in PayoutInputs}

payout_apply ==
    /\ calc.stage = "input"
    /\ LET in == calc.input
           winner_index == winning_option(in.option_totals)
           err == payout_error(in.option_totals, winner_index, in.base_prize,
                               in.creator_share_pct, in.fee_bps, in.staker_list)
           payout == compute_payout(in.option_totals, winner_index, in.base_prize,
                                    in.creator_share_pct, in.backer_share_pct,
                                    in.fee_bps, in.staker_list, in.creator)
       IN  IF err # Ok
           THEN calc' = [stage |-> "failed", input |-> in, err |-> err, sent |-> <<>>]
           ELSE calc' = [stage |-> "done", input |-> in, winner_index |-> winner_index,
                         payout |-> payout, sent |-> PayoutTransfers(1, payout)]
    /\ UNCHANGED <<now, paused, platform_fee_bps, next_id, polls, stakes, whitelist,
                   transfers, stack, last>>

NextPayout == payout_apply

SpecPayout == InitPayout /\ [][NextPayout]_vars

(***************************************************************************)
(* The Navigation bar: the wallet button and the account id it shows.      *)
(* Strings are sequences of characters.                                    *)
(***************************************************************************)
MaxIdLen == 24

Alphabet == <<"a", "b", "c", "d", "e", "f", "g", "h", "i", "j", "k", "l", "m", "n", "o", "p", "q", "r", "s", "t", "u", "v", "w", "x", "y", "z", "0", "1", "2", "3", "4", "5", "6", "7", "8", "9", ".", "-", "_">>

\* accountId: string | null
null == <<"null">>

ShortTestId == <<"s", "h", "o", "r", "t", ".", "n", "e", "a", "r">>
LongTestId ==
    <<"v", "e", "r", "y", "-", "l", "o", "n", "g", "-", "a", "c", "c", "o", "u", "n", "t", "-", "i", "d", "-", "t", "h", "a", "t", "-", "s", "h", "o", "u", "l", "d", "-", "b", "e", "-", "t", "r", "u", "n", "c", "a", "t", "e", "d", ".", "n", "e", "a", "r">>

\* an account id of n characters, the i-th one chosen by its position
IdOf(n, shift) == [i \in 1..n |-> Alphabet[((i * (shift + 1) + shift) % Len(Alphabet)) + 1]]

AccountIdInputs ==
    {null, ShortTestId, LongTestId} \cup {IdOf(n, shift) : n \in 0..MaxIdLen, shift \in 0..3}

\* String.prototype.slice(start, end): negative positions count from the end
slice(s, start, end) ==
    LET len == Len(s)
        from == IF start < 0 THEN (IF len + start < 0 THEN 0 ELSE len + start)
                ELSE (IF start > len THEN len ELSE start)
        to == IF end < 0 THEN (IF len + end < 0 THEN 0 ELSE len + end)
              ELSE (IF end > len THEN len ELSE end)
    IN  IF from >= to THEN <<>> ELSE SubSeq(s, from + 1, to)

formatAccountId_AtTwenty(id) ==
    IF Len(id) >= 20
    THEN slice(id, 0, 10) \o <<".", ".", ".">> \o slice(id, -4, Len(id))
    ELSE id

formatAccountId(id) ==
    IF Len(id) > 20
    THEN slice(id, 0, 10) \o <<".", ".", ".">> \o slice(id, -4, Len(id))
    ELSE id

\* the condition of `accountId ? ... : ...`: null and the empty string are falsy
truthy(accountId) == accountId # null /\ accountId # <<>>

ConnectWallet == [button |-> "Connect Wallet", text |-> <<>>]

\* what the right side of the bar shows
Navigation(accountId) ==
    IF truthy(accountId)
    THEN [button |-> "account", text |-> formatAccountId(accountId)]
    ELSE ConnectWallet

InitNavigation ==
    /\ now = 0
    /\ paused = FALSE
    /\ platform_fee_bps = DEFAULT_FEE_BPS
    /\ next_id = 1
    /\ polls = <<>>
    /\ stakes = <<>>
    /\ whitelist = {}
    /\ transfers = <<>>
    /\ stack = <<>>
    /\ last = Result("init", Ok)
    /\ calc \in {[stage |-> "props", accountId |-> a] : a \in AccountIdInputs}

render ==
    /\ calc.stage = "props"
    /\ calc' = [stage |-> "rendered", accountId |-> calc.accountId,
                shown |-> Navigation(calc.accountId)]
    /\ UNCHANGED <<now, paused, platform_fee_bps, next_id, polls, stakes, whitelist,
                   transfers, stack, last>>

NextNavigation == render

SpecNavigation == InitNavigation /\ [][NextNavigation]_vars

(***************************************************************************)
(* The participation page: rounds of images, one vote per round.  The      *)
(* page state is held in calc; requests is the log of the vote requests    *)
(* the page has sent, each pending, ok or failed.                          *)
(***************************************************************************)
MaxRounds == 2
MaxRequests == 3

RoundIndexes == 0..(MaxRounds - 1)
ImageIds == {1, 2}
InitialVotes == {0, 3}
\* selectedImageId: number | null
NoImage == 0

\* the id of the round at an index of rounds
RoundId(index) == index + 10

\* the state after fetchRounds has stored the rounds
InitPage ==
    /\ now = 0
    /\ paused = FALSE
    /\ platform_fee_bps = DEFAULT_FEE_BPS
    /\ next_id = 1
    /\ polls = <<>>
    /\ stakes = <<>>
    /\ whitelist = {}
    /\ transfers = <<>>
    /\ stack = <<>>
    /\ last = Result("init", Ok)
    /\ calc \in {[stage |-> "page", currentRoundIndex |-> 0, selectedImageId |-> NoImage,
                  isVoting |-> FALSE, votes |-> [r \in RoundIndexes |-> [i \in ImageIds |-> v]],
                  requests |-> <<>>] : v \in InitialVotes}

PageFrame ==
    UNCHANGED <<now, paused, platform_fee_bps, next_id, polls, stakes, whitelist,
                transfers, stack, last>>

\* the guard of handleImageSelection, also the disabled state of the buttons
vote_blocked_SelectedOnly(page) == page.selectedImageId # NoImage

vote_blocked(page) == page.selectedImageId # NoImage \/ page.isVoting

\* a click on Choose: up to the await of the POST, and the render that follows
handleImageSelection(imageId) ==
    /\ calc.stage = "page"
    /\ Len(calc.requests) < MaxRequests
    /\ IF vote_blocked(calc)
       THEN UNCHANGED calc
       ELSE calc' = [calc EXCEPT
                        !.isVoting = TRUE,
                        !.requests = Append(@, [roundId |-> RoundId(calc.currentRoundIndex),
                                                index |-> calc.currentRoundIndex,
                                                image_id |-> imageId,
                                                status |-> "pending"])]
    /\ PageFrame

\* the rest of handleImageSelection once the response of request k is there
vote_response(k, ok) ==
    /\ calc.stage = "page"
    /\ k \in DOMAIN calc.requests
    /\ calc.requests[k].status = "pending"
    /\ LET req == calc.requests[k]
       IN  IF ok
           THEN calc' = [calc EXCEPT
                            !.selectedImageId = req.image_id,
                            !.votes[req.index][req.image_id] = @ + 1,
                            !.isVoting = FALSE,
                            !.requests[k].status = "ok"]
           ELSE calc' = [calc EXCEPT
                            !.isVoting = FALSE,
                            !.requests[k].status = "failed"]
    /\ PageFrame

\* Next Round is shown once an image is selected and a further round exists
handleNextRound ==
    /\ calc.stage = "page"
    /\ calc.selectedImageId # NoImage
    /\ calc.currentRoundIndex < MaxRounds - 1
    /\ calc' = [calc EXCEPT !.currentRoundIndex = @ + 1, !.selectedImageId = NoImage]
    /\ PageFrame

NextPage ==
    \/ \E imageId \in ImageIds : handleImageSelection(imageId)
    \/ \E k \in 1..MaxRequests, ok \in BOOLEAN : vote_response(k, ok)
    \/ handleNextRound

SpecPage == InitPage /\ [][NextPage]_vars

(***************************************************************************)
(* Properties.                                                             *)
(***************************************************************************)
\* a call was rejected: nothing but the reported result changed
Rejected ==
    UNCHANGED <<now, paused, platform_fee_bps, next_id, polls, stakes, whitelist,
                transfers, stack, calc>>

NewTransfers == SubSeq(transfers', Len(transfers) + 1, Len(transfers'))

TransfersOf(id, log) == {k \in DOMAIN log : log[k].id = id}

TransferredTotal(id) ==
    SumFn([k \in TransfersOf(id, transfers) |-> transfers[k].amount],
          TransfersOf(id, transfers))

TotalPool(id) == polls[id].base_prize + SumTotals(polls[id].option_totals)

C2_CommitBeforeTransfer ==
    [][ \A id \in ContestIds :
            TransfersOf(id, NewTransfers) # {} =>
                /\ polls'[id].payout_done
                /\ polls'[id].balance = 0
      ]_vars

\* C3: also when close is entered again at the transfer boundary of a running
\* close, the value transferred for a contest never exceeds its total pool.
C3_NeverPaysMoreThanPool ==
    \A id \in DOMAIN polls : TransferredTotal(id) <= TotalPool(id)

\* C4: the option totals of a contest add up to the amounts of its stake entries.
C4_TotalsMatchStakes ==
    \A id \in DOMAIN polls : SumTotals(polls[id].option_totals) = StakeSum(id)

C4_Witness ==
    /\ last = Result("switch", Ok)
    /\ 1 \in DOMAIN polls
    /\ \E a \in StakersOf(1) : stakes[<<a, 1>>].amount > 1
    /\ polls[1].option_totals[0] + polls[1].option_totals[1] = StakeSum(1)

RecipientTotal(payout) ==
    SumFn(payout.recipient_amounts, DOMAIN payout.recipient_amounts)

SentTotal(log) == SumFn([k \in DOMAIN log |-> log[k].amount], DOMAIN log)

\* C5: the payout conserves value: the fee plus all recipient amounts is the
\* total pool, and so is the sum of the transfers made from it; when nobody
\* staked the creator gets the whole net; otherwise every recipient other than
\* the creator is a backer of the winning option and gets exactly the
\* rounded-down share, so the rounding remainder goes to one recipient, the creator.
C5_PayoutConserves ==
    calc.stage = "done" =>
        LET in == calc.input
            payout == calc.payout
            w == calc.winner_index
            total_pool == in.base_prize + SumTotals(in.option_totals)
            net == total_pool - payout.fee_amount
            backer_pool == net - creator_amount_of(net, in.creator_share_pct)
        IN  /\ payout.fee_amount + RecipientTotal(payout) = total_pool
            /\ SentTotal(calc.sent) = total_pool
            /\ in.option_totals[w] = 0 => payout.recipient_amounts = (in.creator :> net)
            /\ in.option_totals[w] > 0 =>
                 \A a \in DOMAIN payout.recipient_amounts \ {in.creator} :
                    /\ a \in DOMAIN in.staker_list
                    /\ in.staker_list[a].option_index = w
                    /\ payout.recipient_amounts[a] =
                         (backer_pool * in.staker_list[a].amount) \div in.option_totals[w]

\* a payout with two backers on the winning option, a fee, and a rounding remainder
C5_Witness ==
    /\ calc.stage = "done"
    /\ calc.payout.fee_amount > 0
    /\ LET in == calc.input
           w == calc.winner_index
           total_pool == in.base_prize + SumTotals(in.option_totals)
           net == total_pool - calc.payout.fee_amount
           backer_pool == net - creator_amount_of(net, in.creator_share_pct)
           backers == {a \in DOMAIN in.staker_list : in.staker_list[a].option_index = w}
       IN  /\ Cardinality(backers \ {in.creator}) = 2
           /\ \E a \in backers : (backer_pool * in.staker_list[a].amount) % in.option_totals[w] # 0
           /\ SentTotal(calc.sent) = total_pool

\* the checks of stake other than the participant cap pass
StakeOtherwiseValid(c, id, o) ==
    /\ id \in DOMAIN polls
    /\ o \in DOMAIN polls[id].option_totals
    /\ ~paused
    /\ ~polls[id].is_closed
    /\ now < polls[id].ends_at
    /\ (polls[id].is_public \/ whitelisted(c, id))

\* C6: an accepted stake by an account that already has an entry (A, a) takes
\* a off option A's total, adds the new amount b to option B's total, leaves
\* the account with the single entry (B, b), and leaves total_participants alone.
C6_SwitchMovesStake ==
    [][ last'.op = "switch" =>
          \A c \in Accounts, id \in ContestIds, B \in OptionIndexInputs, b \in AmountInputs :
            (/\ <<c, id>> \in DOMAIN stakes
             /\ StakeOtherwiseValid(c, id, B)
             /\ stake(c, id, B, b)) =>
                LET A == stakes[<<c, id>>].option_index
                    a == stakes[<<c, id>>].amount
                    old == polls[id].option_totals
                    new == polls'[id].option_totals
                IN  /\ A # B => (new[A] = old[A] - a /\ new[B] = old[B] + b)
                    /\ A = B => new[A] = old[A] - a + b
                    /\ \A i \in DOMAIN old : i \notin {A, B} => new[i] = old[i]
                    /\ DOMAIN stakes' = DOMAIN stakes
                    /\ stakes'[<<c, id>>].option_index = B
                    /\ stakes'[<<c, id>>].amount = b
                    /\ \A k \in DOMAIN stakes : k # <<c, id>> => stakes'[k] = stakes[k]
                    /\ polls'[id].total_participants = polls[id].total_participants
      ]_vars

C6_Witness ==
    /\ last = Result("switch", Ok)
    /\ <<"bob", 1>> \in DOMAIN stakes
    /\ stakes[<<"bob", 1>>].option_index = 1
    /\ polls[1].option_totals[0] = 0
    /\ polls[1].option_totals[1] = stakes[<<"bob", 1>>].amount
    /\ polls[1].total_participants = 1

NewStakers(id) ==
    {a \in Accounts : <<a, id>> \notin DOMAIN stakes /\ <<a, id>> \in DOMAIN stakes'}

\* C7: in every step total_participants of a contest grows by exactly the
\* number of accounts that got their first stake entry in it (at most one),
\* and so never decreases and is unchanged by every other operation.
C7_ParticipantsCountFirstStakes ==
    [][ \A id \in DOMAIN polls :
            /\ Cardinality(NewStakers(id)) <= 1
            /\ polls'[id].total_participants =
                  polls[id].total_participants + Cardinality(NewStakers(id))
      ]_vars

C7_Witness ==
    /\ last = Result("stake", Ok)
    /\ 1 \in DOMAIN polls
    /\ polls[1].total_participants = MaxParticipants
    /\ Cardinality(StakersOf(1)) = MaxParticipants

\* C8: total_participants never exceeds the cap; at the cap a first stake by a
\* new account changes no state and, when nothing else is wrong with the call,
\* is rejected with ValidationError, while a switch by an existing staker is accepted.
C8_ParticipantCap ==
    [][ /\ \A id \in DOMAIN polls :
            /\ polls[id].total_participants <= MaxParticipants
            /\ polls'[id].total_participants <= MaxParticipants
            /\ polls[id].total_participants = MaxParticipants => NewStakers(id) = {}
        /\ (last' # last /\ last'.op = "stake" /\ last'.err # Ok) => Rejected
        /\ \A id \in DOMAIN polls :
            (last'.op \in {"stake", "switch"}
                /\ polls[id].total_participants = MaxParticipants) =>
              \A c \in Accounts, o \in OptionIndexInputs, amt \in AmountInputs :
                (StakeOtherwiseValid(c, id, o) /\ stake(c, id, o, amt)) =>
                    IF is_new_voter(c, id)
                    THEN last' = Result("stake", ValidationError) /\ Rejected
                    ELSE last' = Result("switch", Ok) /\ stakes'[<<c, id>>].amount = amt
      ]_vars

C8_Witness ==
    /\ last = Result("stake", ValidationError)
    /\ 1 \in DOMAIN polls
    /\ polls[1].total_participants = MaxParticipants
    /\ Cardinality(StakersOf(1)) = MaxParticipants

\* the contest and the transfer log are as they were
ContestUntouched(id) ==
    /\ polls'[id] = polls[id]
    /\ UNCHANGED <<stakes, transfers, stack>>

C10_PaidImpliesEmptyAndClosed ==
    \A id \in DOMAIN polls :
        polls[id].payout_done => (polls[id].balance = 0 /\ polls[id].is_closed)

C10_Witness ==
    /\ Idle
    /\ 1 \in DOMAIN polls
    /\ polls[1].payout_done
    /\ polls[1].base_prize > 0
    /\ StakeSum(1) > 0
    /\ transfers # <<>>

\* C11: winner_index of a contest is unset as long as the contest is not
\* closed, is set (to the winning option) exactly by the step that completes
\* a successful close, and never changes once it is set.
C11_WinnerSetOnceAtClose ==
    [][ \A id \in DOMAIN polls :
            /\ ~polls[id].is_closed => polls[id].winner_index = NoWinner
            /\ polls'[id].is_closed => polls'[id].winner_index # NoWinner
            /\ polls[id].winner_index # NoWinner =>
                  polls'[id].winner_index = polls[id].winner_index
            /\ polls'[id].winner_index # polls[id].winner_index =>
                  /\ last' = Result("close", Ok)
                  /\ ~polls[id].is_closed /\ polls'[id].is_closed
                  /\ polls'[id].winner_index = winning_option(polls[id].option_totals)
      ]_vars

\* a contest closed with option 1 as the winner, and a later call made on it
C11_Witness ==
    /\ 1 \in DOMAIN polls
    /\ polls[1].is_closed
    /\ polls[1].winner_index = 1
    /\ last.op # "close"

\* the step is the payout of a successful close of the contest
Pays(id) == Len(stack') > Len(stack) /\ Head(stack').id = id

Transfer(id, to, amount) == [id |-> id, to |-> to, amount |-> amount]

\* C12: a close of a contest whose winning option has no stake pays
\* total_pool * platform_fee_bps / 10000 to the platform and the whole net to
\* the creator, and nothing to anybody else; a base prize of 100 at 500 bps
\* pays 5 to the platform and 95 to the creator.
C12_ZeroEngagementPayout ==
    [][ \A id \in DOMAIN polls :
            (Pays(id) /\ polls[id].option_totals[winning_option(polls[id].option_totals)] = 0) =>
                LET total_pool == TotalPool(id)
                    fee_amount == (total_pool * platform_fee_bps) \div BPS_DENOMINATOR
                    net == total_pool - fee_amount
                IN  /\ NewTransfers =
                          (IF fee_amount > 0 THEN <<Transfer(id, Platform, fee_amount)>> ELSE <<>>)
                          \o (IF net > 0 THEN <<Transfer(id, polls[id].creator, net)>> ELSE <<>>)
                    /\ (polls[id].base_prize = 100 /\ platform_fee_bps = 500) =>
                          NewTransfers = <<Transfer(id, Platform, 5),
                                           Transfer(id, polls[id].creator, 95)>>
      ]_vars

\* the contest with base prize 100 and no stake, closed at 500 bps
C12_Witness ==
    /\ Idle
    /\ 1 \in DOMAIN polls
    /\ polls[1].is_closed
    /\ StakersOf(1) = {}
    /\ platform_fee_bps = 500
    /\ transfers = <<Transfer(1, Platform, 5), Transfer(1, polls[1].creator, 95)>>

\* what an account receives from the payout under computation
Received(a) ==
    IF a \in DOMAIN calc.payout.recipient_amounts THEN calc.payout.recipient_amounts[a] ELSE 0

SentTo(a) ==
    LET to_a == {k \in DOMAIN calc.sent : calc.sent[k].to = a}
    IN  SumFn([k \in to_a |-> calc.sent[k].amount], to_a)

\* C13: when the winning option has stake W > 0, the creator's amount is
\* floor(net * creator_share_pct / 100), the backer pool is the rest of the net,
\* every backer of the winning option gets floor(backer_pool * stake / W), the
\* rounding remainder goes to the creator on top, and backers of other options
\* get nothing; with net 30 at 90 percent and winning backers of 10 and 5 the
\* amounts are 27, 2 and 1.
C13_ProportionalSplit ==
    (calc.stage = "done" /\ calc.input.option_totals[calc.winner_index] > 0) =>
        LET in == calc.input
            w == calc.winner_index
            W == in.option_totals[w]
            total_pool == in.base_prize + SumTotals(in.option_totals)
            net == total_pool - (total_pool * in.fee_bps) \div BPS_DENOMINATOR
            creator_amount == (net * in.creator_share_pct) \div PERCENT_DENOMINATOR
            backer_pool == net - creator_amount
            backers == {a \in DOMAIN in.staker_list : in.staker_list[a].option_index = w}
            share == [a \in backers |-> (backer_pool * in.staker_list[a].amount) \div W]
            remainder == backer_pool - SumFn(share, backers)
        IN  /\ \A a \in Accounts :
                 /\ Received(a) = (IF a \in backers THEN share[a] ELSE 0)
                                  + (IF a = in.creator THEN creator_amount + remainder ELSE 0)
                 /\ SentTo(a) = Received(a)
            /\ \A A, B \in backers \ {in.creator} :
                 (/\ net = 30 /\ in.creator_share_pct = 90 /\ backers = {A, B}
                  /\ in.staker_list[A].amount = 10 /\ in.staker_list[B].amount = 5) =>
                    /\ creator_amount = 27 /\ backer_pool = 3
                    /\ Received(in.creator) = 27 /\ Received(A) = 2 /\ Received(B) = 1

\* the payout of net 30 at 90 percent with backers of 10 and 5 on the winning option
C13_Witness ==
    /\ calc.stage = "done"
    /\ calc.input.creator_share_pct = 90
    /\ calc.input.base_prize + SumTotals(calc.input.option_totals) - calc.payout.fee_amount = 30
    /\ \E A, B \in Accounts \ {calc.input.creator} :
         /\ {a \in DOMAIN calc.input.staker_list :
                calc.input.staker_list[a].option_index = calc.winner_index} = {A, B}
         /\ calc.input.staker_list[A].amount = 10
         /\ calc.input.staker_list[B].amount = 5
         /\ Received(calc.input.creator) = 27 /\ Received(A) = 2 /\ Received(B) = 1

\* a bound of the Resource Limiter is violated by the create parameters
BoundViolated(p) ==
    \/ p.n < 2 \/ p.n > 100
    \/ p.duration <= 0 \/ p.duration > MAX_DURATION_DAYS
    \/ p.prize > 0 /\ (p.prize < MinReward \/ p.prize > MaxReward)

\* C14: create with an option count outside [2, 100], a duration of 0 or of
\* more than one year, or a non-zero base prize outside the configured bounds
\* is rejected and changes no state (no contest, no id consumed, nothing
\* escrowed); on a contract that is not paused the error is ValidationError.
C14_CreateBoundsRejected ==
    [][ last'.op = "create" =>
          \A caller \in CreatorInputs, p \in CreateInputs :
            (/\ BoundViolated(p)
             /\ create(caller, p.n, p.prize, p.shares, p.is_public, p.duration, p.attached)) =>
                /\ last'.op = "create" /\ last'.err # Ok
                /\ ~paused => last' = Result("create", ValidationError)
                /\ Rejected
                /\ DOMAIN polls' = DOMAIN polls /\ next_id' = next_id
      ]_vars

C14_Witness ==
    /\ last = Result("create", ValidationError)
    /\ ~paused
    /\ polls = <<>>
    /\ next_id = 1

\* the create parameters are valid apart, possibly, from the prize bounds
OtherwiseValidCreate(p) ==
    /\ p.n >= 2 /\ p.n <= 100
    /\ p.duration > 0 /\ p.duration <= MAX_DURATION_DAYS
    /\ p.shares[1] + p.shares[2] = 100
    /\ p.attached >= p.prize

\* C15: create with base_prize = 0 and otherwise valid parameters succeeds (on
\* a contract that is not paused): the contest is persisted with a zero prize
\* and the id is consumed; a zero prize is never rejected as below the minimum.
C15_ZeroPrizeAllowed ==
    [][ last'.op = "create" =>
          \A caller \in CreatorInputs, p \in CreateInputs :
            (/\ p.prize = 0 /\ OtherwiseValidCreate(p) /\ ~paused
             /\ create(caller, p.n, p.prize, p.shares, p.is_public, p.duration, p.attached)) =>
                /\ last' = Result("create", Ok)
                /\ next_id' = next_id + 1
                /\ DOMAIN polls' = DOMAIN polls \cup {next_id}
                /\ polls'[next_id].base_prize = 0
                /\ polls'[next_id].balance = 0
                /\ polls'[next_id].creator = caller
                /\ ~polls'[next_id].is_closed
      ]_vars

C15_Witness ==
    /\ last = Result("create", Ok)
    /\ 1 \in DOMAIN polls
    /\ polls[1].base_prize = 0
    /\ polls[1].balance = 0
    /\ MinReward > 0

\* C16: set_fee_rate with a rate above the ceiling fails for every caller, the
\* owner included, and leaves the fee rate (and everything else) unchanged;
\* the stored fee rate is at most the ceiling in every state.
C16_FeeCeiling ==
    [][ /\ platform_fee_bps <= MAX_FEE_BPS
        /\ platform_fee_bps' <= MAX_FEE_BPS
        /\ last'.op = "set_fee_rate" =>
             \A caller \in Accounts, bps \in FeeInputs :
                (bps > MAX_FEE_BPS /\ set_fee_rate(caller, bps)) =>
                    /\ last'.err # Ok
                    /\ is_owner(caller) => last' = Result("set_fee_rate", ValidationError)
                    /\ platform_fee_bps' = platform_fee_bps
                    /\ Rejected
      ]_vars

\* the owner was refused a rate above the ceiling while the rate is at the ceiling
C16_Witness ==
    /\ last = Result("set_fee_rate", ValidationError)
    /\ platform_fee_bps = MAX_FEE_BPS

Errors == {ValidationError, NotFoundError, StateError, AuthorizationError, ComputationError}

\* C17: a call that returns an error leaves the persisted state as it was:
\* contests with their option totals, stake entries, whitelist, next id, fee
\* rate and pause flag are unchanged, and no transfer is dispatched.
C17_ErrorsChangeNothing ==
    [][ (last' # last /\ last'.err \in Errors) =>
            /\ polls' = polls
            /\ stakes' = stakes
            /\ whitelist' = whitelist
            /\ next_id' = next_id
            /\ platform_fee_bps' = platform_fee_bps
            /\ paused' = paused
            /\ transfers' = transfers
            /\ Rejected
      ]_vars

\* a call was refused on a contract that holds a contest, a stake and a whitelist entry
C17_Witness ==
    /\ last.err \in Errors
    /\ 1 \in DOMAIN polls
    /\ StakersOf(1) # {}
    /\ whitelist # {}
    /\ platform_fee_bps # DEFAULT_FEE_BPS

\* C18: a role-guarded operation called without the accepted role fails with
\* AuthorizationError and changes no state: close of a contest by an account
\* that is neither its creator nor the owner, whitelist_add and
\* whitelist_remove by an account other than the contest's creator, and
\* set_fee_rate, pause and resume by an account other than the owner.
C18_UnauthorizedRejected ==
    [][ /\ last'.op = "close" =>
             \A c \in Accounts, id \in DOMAIN polls :
                (c # polls[id].creator /\ c # Owner /\ Idle /\ close(c, id)) =>
                    last' = Result("close", AuthorizationError) /\ Rejected
        /\ last'.op = "whitelist_add" =>
             \A c \in Accounts, id \in DOMAIN polls, a \in WhitelistInputs :
                (c # polls[id].creator /\ whitelist_add(c, id, a)) =>
                    last' = Result("whitelist_add", AuthorizationError) /\ Rejected
        /\ last'.op = "whitelist_remove" =>
             \A c \in Accounts, id \in DOMAIN polls, a \in WhitelistInputs :
                (c # polls[id].creator /\ whitelist_remove(c, id, a)) =>
                    last' = Result("whitelist_remove", AuthorizationError) /\ Rejected
        /\ last'.op = "set_fee_rate" =>
             \A c \in Accounts \ {Owner}, bps \in FeeInputs :
                set_fee_rate(c, bps) =>
                    last' = Result("set_fee_rate", AuthorizationError) /\ Rejected
        /\ last'.op = "pause" =>
             \A c \in Accounts \ {Owner} :
                pause(c) => last' = Result("pause", AuthorizationError) /\ Rejected
        /\ last'.op = "resume" =>
             \A c \in Accounts \ {Owner} :
                resume(c) => last' = Result("resume", AuthorizationError) /\ Rejected
      ]_vars

\* an expired, funded, open contest that an outsider was refused to close
C18_Witness ==
    /\ last = Result("close", AuthorizationError)
    /\ 1 \in DOMAIN polls
    /\ now >= polls[1].ends_at
    /\ ~polls[1].is_closed
    /\ polls[1].balance > 0
    /\ transfers = <<>>

\* the accounts whose stake entry in the contest is new or changed in the step
StakeWriters(id) ==
    {a \in Accounts : /\ <<a, id>> \in DOMAIN stakes'
                      /\ (<<a, id>> \notin DOMAIN stakes \/ stakes'[<<a, id>>] # stakes[<<a, id>>])}

\* C19: in a private contest a stake by an account that is not whitelisted for
\* it at the time of the call is rejected and changes nothing, with
\* AuthorizationError (when the option exists and the contract is not paused),
\* also for an account that staked earlier and was removed from the whitelist
\* since; so every stake entry written in a private contest is written for an
\* account that is whitelisted at that moment.
C19_WhitelistEnforced ==
    [][ \A id \in DOMAIN polls :
          ~polls[id].is_public =>
            /\ \A a \in StakeWriters(id) : whitelisted(a, id)
            /\ last'.op = "stake" =>
                 \A c \in Accounts, o \in OptionIndexInputs, amt \in AmountInputs :
                    (~whitelisted(c, id) /\ stake(c, id, o, amt)) =>
                        /\ last'.err # Ok
                        /\ Rejected
                        /\ (o \in DOMAIN polls[id].option_totals /\ ~paused) =>
                              last' = Result("stake", AuthorizationError)
      ]_vars

\* an account with a stake in a private contest, no longer whitelisted, was refused
C19_Witness ==
    /\ last = Result("stake", AuthorizationError)
    /\ 1 \in DOMAIN polls
    /\ ~polls[1].is_public
    /\ \E a \in StakersOf(1) : ~whitelisted(a, 1)
    /\ polls[1].total_participants = MaxParticipants

\* the stake entries of the contest are as they were
StakesKept(id) ==
    \A a \in Accounts :
        /\ (<<a, id>> \in DOMAIN stakes') = (<<a, id>> \in DOMAIN stakes)
        /\ <<a, id>> \in DOMAIN stakes => stakes'[<<a, id>>] = stakes[<<a, id>>]

\* the contest is closed or its expiry has been reached
Ended(id) == now >= polls[id].ends_at \/ polls[id].is_closed

\* the whitelist entries of a contest
WhitelistOf(id, wl) == {e \in wl : e[1] = id}

\* the checks of stake other than the lifecycle check pass
StakeValidButForLifecycle(c, id, o) ==
    /\ o \in DOMAIN polls[id].option_totals
    /\ ~paused
    /\ (polls[id].is_public \/ whitelisted(c, id))

\* from the expiry of a contest on, every stake and switch on it is refused
\* (with StateError when nothing else is wrong with the call) and only a
\* successful close changes the contest record or its stake entries
FrozenAfterExpiry(id) ==
    /\ polls'[id] # polls[id] =>
          /\ last' = Result("close", Ok)
          /\ polls'[id].option_totals = polls[id].option_totals
          /\ polls'[id].total_participants = polls[id].total_participants
    /\ StakesKept(id)
    /\ (last'.op = "stake" /\ last'.err # StateError) =>
         \A c \in Accounts, o \in OptionIndexInputs, amt \in AmountInputs :
            StakeValidButForLifecycle(c, id, o) => ~stake(c, id, o, amt)

LifecycleState(poll, t) ==
    IF poll.is_closed
    THEN IF poll.winner_index \in DOMAIN poll.option_totals
            /\ poll.option_totals[poll.winner_index] > 0
         THEN "Paid" ELSE "Refunded"
    ELSE IF t >= poll.ends_at THEN "Expired" ELSE "Open"

Closed == {"Paid", "Refunded"}

\* the greatest aggregate stake among the options
GreatestStake(totals) == CHOOSE m \in {totals[i] : i \in DOMAIN totals} :
                            \A i \in DOMAIN totals : totals[i] <= m

\* the accounts the transfers of a contest went to
RecipientsOf(id, log) == {log[k].to : k \in TransfersOf(id, log)}

\* C22: a contest moves only forward through Open, Expired and Closed: an Open
\* contest stays Open or becomes Expired, an Expired one stays Expired or
\* becomes Closed, a Closed one never changes again; is_closed and payout_done
\* never go back to false; the close that completes leaves the contest Closed,
\* as Refunded exactly when the greatest option total at closure is zero (then
\* only the platform and the creator were paid) and as Paid otherwise.
C22_LifecycleForwardOnly ==
    [][ \A id \in DOMAIN polls :
          /\ id \in DOMAIN polls'
          /\ LET s == LifecycleState(polls[id], now)
                 t == LifecycleState(polls'[id], now')
             IN  /\ s = "Open" => t \in {"Open", "Expired"}
                 /\ s = "Expired" => t \in {"Expired"} \cup Closed
                 /\ s \in Closed => t = s /\ polls'[id] = polls[id]
                 /\ (stack # <<>> /\ stack' = Tail(stack) /\ Head(stack).id = id) => t \in Closed
                 /\ (s = "Expired" /\ t \in Closed) =>
                       /\ (t = "Refunded") = (GreatestStake(polls[id].option_totals) = 0)
                       /\ t = "Refunded" =>
                             RecipientsOf(id, transfers') \subseteq {Platform, polls[id].creator}
                       /\ polls'[id].payout_done
          /\ polls[id].is_closed => polls'[id].is_closed
          /\ polls[id].payout_done => polls'[id].payout_done
          /\ polls'[id].ends_at = polls[id].ends_at
          /\ now' >= now
      ]_vars

\* one contest was closed as Paid after stakes on it
C22_Witness ==
    /\ 1 \in DOMAIN polls
    /\ LifecycleState(polls[1], now) = "Paid"
    /\ polls[1].payout_done
    /\ StakersOf(1) # {}

\* a contest nobody staked on was closed as Refunded
C22_WitnessRefunded ==
    /\ 1 \in DOMAIN polls
    /\ LifecycleState(polls[1], now) = "Refunded"
    /\ polls[1].base_prize > 0
    /\ \E k \in DOMAIN transfers : transfers[k].to = polls[1].creator

\* the end-of-round winner of the two-choice round page
winIdx(choicesCount) == IF choicesCount[0] >= choicesCount[1] THEN 0 ELSE 1

\* the options that hold the greatest aggregate stake
Leaders(totals) == {i \in DOMAIN totals : totals[i] = GreatestStake(totals)}

C24_NoZeroStakeEntry ==
    \A key \in DOMAIN stakes : stakes[key].amount > 0

\* C24 (the step): a stake call with amount 0 leaves the Stake Registry and
\* the contest as they were
C24_ZeroStakeRejected ==
    [][ last'.op \in {"stake", "switch"} =>
          \A c \in ZeroStakeInputs :
              stake(c.caller, c.id, c.option_index, c.amount) =>
                  last'.err # Ok /\ Rejected
      ]_vars

\* a stake without a deposit was refused on a contest that has room for it
\* (nobody has staked yet, so the participant cap is not the reason)
C24_Witness ==
    /\ 1 \in DOMAIN polls
    /\ last = Result("stake", ValidationError)
    /\ ~polls[1].is_closed
    /\ now < polls[1].ends_at
    /\ ~paused
    /\ StakersOf(1) = {}

ExceedsWidth(in) ==
    LET total_pool == in.base_prize + SumTotals(in.option_totals)
        net == total_pool - (total_pool * in.fee_bps) \div BPS_DENOMINATOR
        w == winIdx(in.option_totals)
        backer_pool == net - (net * in.creator_share_pct) \div PERCENT_DENOMINATOR
    IN  \/ total_pool > MaxWord
        \/ total_pool * in.fee_bps > MaxWord
        \/ /\ in.option_totals[w] > 0
           /\ \/ net * in.creator_share_pct > MaxWord
              \/ \E a \in DOMAIN in.staker_list :
                    /\ in.staker_list[a].option_index = w
                    /\ backer_pool * in.staker_list[a].amount > MaxWord

C26_WitnessOtherProduct ==
    /\ calc.stage = "failed"
    /\ calc.input.fee_bps = 0
    /\ calc.input.base_prize = HugePrize

\* a pool beyond the limits whose products all fit is paid out
C26_WitnessInRange ==
    /\ calc.stage = "done"
    /\ calc.input.base_prize = OverPrize
    /\ calc.payout.fee_amount > 0

\* the first 10 characters, three dots and the last 4 characters of id
Truncated(id) ==
    [i \in 1..17 |-> IF i <= 10 THEN id[i]
                     ELSE IF i <= 13 THEN "."
                     ELSE id[Len(id) - 17 + i]]

\* what the bar shows for an account id that is not empty
ShownFor(id) ==
    [button |-> "account", text |-> IF Len(id) <= 20 THEN id ELSE Truncated(id)]

C27_WitnessTwenty ==
    /\ calc.stage = "rendered"
    /\ calc.accountId # null
    /\ Len(calc.accountId) = 20
    /\ calc.shown.text = calc.accountId

C28_ParticipantsAreStakers ==
    \A id \in DOMAIN polls :
        /\ polls[id].total_participants = Cardinality(StakersOf(id))
        /\ polls[id].total_participants =
              Cardinality({key \in DOMAIN stakes : key[2] = id})

\* an account that staked and then switched is still counted once
C28_Witness ==
    /\ 1 \in DOMAIN polls
    /\ last = Result("switch", Ok)
    /\ polls[1].total_participants = 1
    /\ Cardinality(StakersOf(1)) = 1

RequestsOf(index, status) ==
    {k \in DOMAIN calc.requests : calc.requests[k].index = index /\ calc.requests[k].status = status}

RequestsFor(index) == {k \in DOMAIN calc.requests : calc.requests[k].index = index}

Pending == {k \in DOMAIN calc.requests : calc.requests[k].status = "pending"}

\* by how much the shown vote counts of a round have grown
VoteGrowth(index, initial) ==
    SumFn([i \in ImageIds |-> calc.votes[index][i] - initial], ImageIds)

\* C30 (as amended): on the participation page at most one vote request is
\* pending at any time, however often Choose is clicked meanwhile; for each
\* round at most one request succeeds, the shown vote counts of the round grow
\* by one for that request and not otherwise, and no request is sent for the
\* round after the one that succeeded; a failed request leaves selectedImageId
\* null, so a later click sends another request for the same round.
C30_OneVotePerRound ==
    calc.stage = "page" =>
        /\ Cardinality(Pending) <= 1
        /\ calc.isVoting = (Pending # {})
        /\ \A index \in RoundIndexes :
              /\ Cardinality(RequestsOf(index, "ok")) <= 1
              /\ \A k \in RequestsOf(index, "ok") : \A j \in RequestsFor(index) : j <= k
              /\ \E initial \in InitialVotes :
                    /\ VoteGrowth(index, initial) = Cardinality(RequestsOf(index, "ok"))
                    /\ \A i \in ImageIds :
                          calc.votes[index][i] - initial =
                              Cardinality({k \in RequestsOf(index, "ok") :
                                              calc.requests[k].image_id = i})
        /\ (calc.selectedImageId = NoImage) =
              (RequestsOf(calc.currentRoundIndex, "ok") = {})
        /\ \A k \in DOMAIN calc.requests : calc.requests[k].index <= calc.currentRoundIndex

\* a request failed and the next one for the same round succeeded
C30_Witness ==
    /\ calc.stage = "page"
    /\ Len(calc.requests) = 2
    /\ calc.requests[1].status = "failed"
    /\ calc.requests[2].status = "ok"
    /\ calc.requests[1].index = calc.requests[2].index
    /\ calc.selectedImageId = calc.requests[2].image_id

\* C30 (original): for each displayed round at most one vote request is sent
\* and the shown vote counts grow by at most 1; after a vote has succeeded no
\* further request is sent for the round, and without a successful request
\* selectedImageId is null.
C30_Original ==
    calc.stage = "page" =>
        /\ \A index \in RoundIndexes :
              /\ Cardinality(RequestsFor(index)) <= 1
              /\ \E initial \in InitialVotes : VoteGrowth(index, initial) \in {0, 1}
              /\ \A k \in RequestsOf(index, "ok") : \A j \in RequestsFor(index) : j <= k
        /\ RequestsOf(calc.currentRoundIndex, "ok") = {} => calc.selectedImageId = NoImage
====
